---- MODULE Spec2Model ----
(***************************************************************************)
(* Model of the repolex-forx scheduling scripts: the manifest.json and     *)
(* queue.txt files and the scripts that read and write them                *)
(* (queue_manager.py, discover_versions.py, update_manifest.py,            *)
(* find_next_work.py).                                                     *)
(*                                                                         *)
(* A tag is a sequence of one-character strings, a repository id is a      *)
(* string, a date ("%Y-%m-%d") is a day number >= 1 and None for a date is *)
(* NoDate.  discovered_tags is [none |-> TRUE] for None and otherwise      *)
(* carries the list of tags.                                               *)
(***************************************************************************)
EXTENDS Integers, Sequences, FiniteSets, TLC

VARIABLES
    manifestExists,   \* manifest.json is present on disk
    manifest,         \* content of manifest.json (meaningful when present)
    queueExists,      \* queue.txt is present on disk
    queue,            \* the repository lines of queue.txt, in file order
    today,            \* datetime.utcnow() as a date
    saves,            \* datetime.utcnow() as a timestamp: grows at each save
    out,              \* what the last script run printed / its exit status
    pc,               \* position of the external driver loop
    trace,            \* actions next-work handed to the driver, in order
    sincePick,        \* per repo: repos chosen since its latest pick
    argTags,          \* the tag list the version functions were applied to
    procs,            \* per process: position and memory of a script run
    tmpExists,        \* manifest.tmp is present on disk
    tmpBytes,         \* the chunks of manifest.tmp
    jsonBytes         \* the chunks of manifest.json

vars == <<manifestExists, manifest, queueExists, queue, today, saves, out,
          pc, trace, sincePick, argTags, procs, tmpExists, tmpBytes,
          jsonBytes>>

----------------------------------------------------------------------------
(* Bounds *)

MaxDay == 2
MaxSaves == 3
MaxChunks == 2
MaxListLen == 3

Repos == {"o/a", "o/b"}

NoDate == 0

----------------------------------------------------------------------------
(* Tags as character sequences *)

t100  == <<"1", ".", "0", ".", "0">>
t101  == <<"1", ".", "0", ".", "1">>
t102  == <<"1", ".", "0", ".", "2">>
t109  == <<"1", ".", "0", ".", "9">>
t1010 == <<"1", ".", "0", ".", "1", "0">>
t1009 == <<"1", ".", "0", ".", "0", "9">>
t110  == <<"1", ".", "1", ".", "0">>
t200  == <<"2", ".", "0", ".", "0">>
v100  == <<"v">> \o t100
vv200 == <<"v", "v">> \o t200
bogus == <<"b", "o", "g", "u", "s">>
rc120 == <<"1", ".", "2", ".", "0", "-", "r", "c", "1">>
t12   == <<"1", ".", "2">>

\* git tag --list outputs the driver may meet
RawTagLists ==
    { <<bogus, rc120, t12>>,
      <<v100, t101, bogus>>,
      <<t110, t109, t1010, rc120>> }

\* tag arguments handed to update_manifest.py
TagArgs == {t1010, t110}

Digits == {"0", "1", "2", "3", "4", "5", "6", "7", "8", "9"}

DigitVal(c) ==
    CASE c = "0" -> 0 [] c = "1" -> 1 [] c = "2" -> 2 [] c = "3" -> 3
      [] c = "4" -> 4 [] c = "5" -> 5 [] c = "6" -> 6 [] c = "7" -> 7
      [] c = "8" -> 8 [] c = "9" -> 9

IsDigits(s) == Len(s) >= 1 /\ \A i \in 1..Len(s) : s[i] \in Digits

RECURSIVE Num(_)
Num(s) == IF s = <<>> THEN 0
          ELSE 10 * Num(SubSeq(s, 1, Len(s) - 1)) + DigitVal(s[Len(s)])

RECURSIVE lstrip_v(_)
lstrip_v(tag) ==
    IF tag # <<>> /\ Head(tag) = "v" THEN lstrip_v(Tail(tag)) ELSE tag

\* positions <<i, j>> of the two dots when s matches ^(\d+)\.(\d+)\.(\d+)$
DotPairs(s) ==
    { p \in (1..Len(s)) \X (1..Len(s)) :
        /\ p[1] < p[2]
        /\ s[p[1]] = "."
        /\ s[p[2]] = "."
        /\ IsDigits(SubSeq(s, 1, p[1] - 1))
        /\ IsDigits(SubSeq(s, p[1] + 1, p[2] - 1))
        /\ IsDigits(SubSeq(s, p[2] + 1, Len(s))) }

semver_pattern(s) == DotPairs(s) # {}

RECURSIVE filter_semver_tags(_)
filter_semver_tags(tags) ==
    IF tags = <<>> THEN <<>>
    ELSE LET clean_tag == lstrip_v(Head(tags))
         IN  (IF semver_pattern(clean_tag) THEN <<clean_tag>> ELSE <<>>)
                 \o filter_semver_tags(Tail(tags))

\* packaging.version.parse of a strict X.Y.Z string: its release triple
version_parse(s) ==
    LET p == CHOOSE q \in DotPairs(s) : TRUE
    IN  << Num(SubSeq(s, 1, p[1] - 1)),
           Num(SubSeq(s, p[1] + 1, p[2] - 1)),
           Num(SubSeq(s, p[2] + 1, Len(s))) >>

VersionLess(a, b) ==
    \/ a[1] < b[1]
    \/ a[1] = b[1] /\ a[2] < b[2]
    \/ a[1] = b[1] /\ a[2] = b[2] /\ a[3] < b[3]

MajorMinor(tag) == LET v == version_parse(tag) IN <<v[1], v[2]>>

\* keys of by_major_minor in insertion order
RECURSIVE GroupKeys(_, _)
GroupKeys(tags, seen) ==
    IF tags = <<>> THEN seen
    ELSE LET k == MajorMinor(Head(tags))
         IN  GroupKeys(Tail(tags),
                       IF \E i \in 1..Len(seen) : seen[i] = k
                       THEN seen ELSE Append(seen, k))

\* characters in code point order, "." before the digits, for the string
\* comparison of the variant below
CharOrd(c) == IF c \in Digits THEN DigitVal(c) + 1 ELSE 0

RECURSIVE StringLess(_, _)
StringLess(a, b) ==
    IF b = <<>> THEN FALSE
    ELSE IF a = <<>> THEN TRUE
    ELSE IF Head(a) # Head(b) THEN CharOrd(Head(a)) < CharOrd(Head(b))
    ELSE StringLess(Tail(a), Tail(b))

\* max(versions): the greatest string, not the greatest version
RECURSIVE MaxByVersion_lexical(_, _)
MaxByVersion_lexical(versions, best) ==
    IF versions = <<>> THEN best
    ELSE MaxByVersion_lexical(Tail(versions),
                              IF StringLess(best, Head(versions))
                              THEN Head(versions) ELSE best)

\* max(versions, key=version.parse): the first maximal element
RECURSIVE MaxByVersion(_, _)
MaxByVersion(versions, best) ==
    IF versions = <<>> THEN best
    ELSE MaxByVersion(Tail(versions),
                      IF VersionLess(version_parse(best),
                                     version_parse(Head(versions)))
                      THEN Head(versions) ELSE best)

\* sorted(result, key=version.parse): stable insertion
RECURSIVE InsertByVersion(_, _)
InsertByVersion(sorted, tag) ==
    IF sorted = <<>> THEN <<tag>>
    ELSE IF VersionLess(version_parse(tag), version_parse(Head(sorted)))
         THEN <<tag>> \o sorted
         ELSE <<Head(sorted)>> \o InsertByVersion(Tail(sorted), tag)

RECURSIVE SortedByVersion(_, _)
SortedByVersion(result, acc) ==
    IF result = <<>> THEN acc
    ELSE SortedByVersion(Tail(result), InsertByVersion(acc, Head(result)))

select_versions_smart(tags) ==
    LET keys == GroupKeys(tags, <<>>)
        group(k) == SelectSeq(tags, LAMBDA t : MajorMinor(t) = k)
        result == [i \in 1..Len(keys) |->
                      MaxByVersion(Tail(group(keys[i])), Head(group(keys[i])))]
    IN  SortedByVersion(result, <<>>)

\* discover_and_update lines 108-118: the selected versions of a tag listing
Selected(all_tags) ==
    LET semver_tags == filter_semver_tags(all_tags)
    IN  IF semver_tags = <<>> THEN <<>> ELSE select_versions_smart(semver_tags)

\* tag listings the driver loop may meet: also one with three series
DriverTagLists == RawTagLists \cup { <<t110, t1010, t200>> }

\* Selected, tabulated once for the tag listings of the model
SelectedOf == [all_tags \in DriverTagLists |-> Selected(all_tags)]

----------------------------------------------------------------------------
(* The manifest *)

NoTag == <<>>
NoTags == [none |-> TRUE, tags |-> <<>>]
SomeTags(ts) == [none |-> FALSE, tags |-> ts]

\* sum(r["parsed_count"] for r in manifest["repos"].values())
RECURSIVE SumParsed(_, _)
SumParsed(rs, S) ==
    IF S = {} THEN 0
    ELSE LET r == CHOOSE x \in S : TRUE
         IN  rs[r].parsed_count + SumParsed(rs, S \ {r})

\* sum((r["total_tags"] - r["parsed_count"]) for r in ...)
RECURSIVE SumPending(_, _)
SumPending(rs, S) ==
    IF S = {} THEN 0
    ELSE LET r == CHOOSE x \in S : TRUE
         IN  (rs[r].total_tags - rs[r].parsed_count) + SumPending(rs, S \ {r})

\* the "stats" block that save_manifest recomputes
StatsOf(rs) ==
    [ total_repos        |-> Cardinality(DOMAIN rs),
      total_tags_parsed  |-> SumParsed(rs, DOMAIN rs),
      total_tags_pending |-> SumPending(rs, DOMAIN rs) ]

EmptyRepos == [r \in {} |-> 0]

\* the manifest an empty installation starts from
EmptyManifest ==
    [ last_updated |-> 0, repos |-> EmptyRepos, stats |-> StatsOf(EmptyRepos) ]

\* a save that writes the stats it loaded
save_manifest_stale_stats(m) ==
    [ last_updated |-> saves + 1,
      repos        |-> m.repos,
      stats        |-> m.stats ]

\* the content save_manifest writes for an in-memory manifest m
save_manifest(m) ==
    [ last_updated |-> saves + 1,
      repos        |-> m.repos,
      stats        |-> StatsOf(m.repos) ]

\* the record both discover_and_update and add_repo build for a new repo
NewRecord ==
    [ added_at        |-> today,
      priority        |-> 1,
      parsed_tags     |-> <<>>,
      discovered_tags |-> NoTags,
      total_tags      |-> 0,
      parsed_count    |-> 0,
      last_parsed     |-> NoDate ]

StorageRepoName(org_repo) == <<"repolex-forx", org_repo>>

ParsedTagSet(rec) == { rec.parsed_tags[i].tag : i \in 1..Len(rec.parsed_tags) }

Contains(seq, x) == \E i \in 1..Len(seq) : seq[i] = x

\* list.remove(x): drops the first occurrence
RemoveFirst(seq, x) ==
    LET i == CHOOSE k \in 1..Len(seq) :
                 seq[k] = x /\ \A j \in 1..(k - 1) : seq[j] # x
    IN  SubSeq(seq, 1, i - 1) \o SubSeq(seq, i + 1, Len(seq))

\* one script run: exit status, the stderr diagnosis (err), the
\* key=value line on stdout (msg) and the tag list on stdout (tags)
Result(op, repo, tag, exit, err, msg) ==
    [ op |-> op, repo |-> repo, tag |-> tag, exit |-> exit,
      err |-> err, msg |-> msg, tags |-> <<>> ]

----------------------------------------------------------------------------
(* find_next_work.py *)

\* a test that takes the empty list for None as well
is_undiscovered_falsy(data) ==
    data.discovered_tags.none \/ data.discovered_tags.tags = <<>>

\* find_next_repo line 49, find_next_tag line 81: discovered_tags is None
is_undiscovered(data) == data.discovered_tags.none

\* a scheduler that stops one tag early
has_unparsed_off_by_one(data) == data.parsed_count + 1 < data.total_tags

\* a scheduler that also counts a finished repo as having work
has_unparsed_or_done(data) == data.parsed_count <= data.total_tags

\* find_next_repo line 54
has_unparsed(data) == data.parsed_count < data.total_tags

\* repos_with_work: <<org_repo, last_parsed, work_type>> in queue order
RECURSIVE repos_with_work(_, _)
repos_with_work(q, m) ==
    IF q = <<>> THEN <<>>
    ELSE LET org_repo == Head(q)
             rest == repos_with_work(Tail(q), m)
         IN  IF org_repo \notin DOMAIN m.repos
             THEN <<<<org_repo, NoDate, "new">>>> \o rest
             ELSE LET data == m.repos[org_repo]
                  IN  IF is_undiscovered(data)
                      THEN <<<<org_repo, data.last_parsed, "discover">>>> \o rest
                      ELSE IF has_unparsed(data)
                           THEN <<<<org_repo, data.last_parsed, "parse">>>> \o rest
                           ELSE rest

sort_key(item) ==
    IF item[2] = NoDate THEN <<0, 0>> ELSE <<1, item[2]>>

KeyLess(a, b) == a[1] < b[1] \/ (a[1] = b[1] /\ a[2] < b[2])

\* an unstable sort: an item goes in front of the items with an equal key
RECURSIVE InsertByKey_unstable(_, _)
InsertByKey_unstable(sorted, item) ==
    IF sorted = <<>> THEN <<item>>
    ELSE IF ~KeyLess(sort_key(Head(sorted)), sort_key(item))
         THEN <<item>> \o sorted
         ELSE <<Head(sorted)>> \o InsertByKey_unstable(Tail(sorted), item)

\* list.sort(key=sort_key) is stable: an item goes behind every item whose
\* key is not greater
RECURSIVE InsertByKey(_, _)
InsertByKey(sorted, item) ==
    IF sorted = <<>> THEN <<item>>
    ELSE IF KeyLess(sort_key(item), sort_key(Head(sorted)))
         THEN <<item>> \o sorted
         ELSE <<Head(sorted)>> \o InsertByKey(Tail(sorted), item)

RECURSIVE SortByKey(_, _)
SortByKey(items, acc) ==
    IF items = <<>> THEN acc
    ELSE SortByKey(Tail(items), InsertByKey(acc, Head(items)))

\* a scheduler that falls back to any record with unparsed tags
find_next_repo_any_record(q, m) ==
    LET work == repos_with_work(q, m)
        others == { r \in DOMAIN m.repos : has_unparsed(m.repos[r]) }
    IN  IF work # <<>> THEN SortByKey(work, <<>>)[1][1]
        ELSE IF others # {} THEN CHOOSE r \in others : TRUE
        ELSE ""

\* "" stands for the None that find_next_repo returns without work
find_next_repo(q, m) ==
    LET work == repos_with_work(q, m)
    IN  IF work = <<>> THEN "" ELSE SortByKey(work, <<>>)[1][1]

\* a scan that starts from the newest tag
RECURSIVE FirstUnparsed_newest(_, _)
FirstUnparsed_newest(tags, parsed) ==
    IF tags = <<>> THEN NoTag
    ELSE IF tags[Len(tags)] \notin parsed THEN tags[Len(tags)]
         ELSE FirstUnparsed_newest(SubSeq(tags, 1, Len(tags) - 1), parsed)

\* find_next_tag lines 86-89
RECURSIVE FirstUnparsed(_, _)
FirstUnparsed(tags, parsed) ==
    IF tags = <<>> THEN NoTag
    ELSE IF Head(tags) \notin parsed THEN Head(tags)
         ELSE FirstUnparsed(Tail(tags), parsed)

\* NoTag stands for None
find_next_tag(org_repo, m) ==
    IF org_repo \notin DOMAIN m.repos THEN NoTag
    ELSE LET data == m.repos[org_repo]
         IN  IF is_undiscovered(data) THEN NoTag
             ELSE FirstUnparsed(data.discovered_tags.tags, ParsedTagSet(data))

\* a main that lets the missing file end the run with an error status
next_work_output_missing_fails ==
    IF ~manifestExists \/ ~queueExists
    THEN Result("next_work", "", NoTag, 1, "FileNotFoundError", "")
    ELSE LET next_repo == find_next_repo(queue, manifest)
         IN  IF next_repo = ""
             THEN Result("next_work", "", NoTag, 0, "no_work",
                         "needs_discovery=false")
             ELSE LET next_tag == find_next_tag(next_repo, manifest)
                  IN  Result("next_work", next_repo, next_tag, 0, "",
                             IF next_tag = NoTag THEN "needs_discovery=true"
                                                 ELSE "needs_discovery=false")

\* what main prints
next_work_output ==
    IF ~manifestExists \/ ~queueExists
    THEN Result("next_work", "", NoTag, 0, "FileNotFoundError",
                "needs_discovery=false")
    ELSE LET next_repo == find_next_repo(queue, manifest)
         IN  IF next_repo = ""
             THEN Result("next_work", "", NoTag, 0, "no_work",
                         "needs_discovery=false")
             ELSE LET next_tag == find_next_tag(next_repo, manifest)
                  IN  Result("next_work", next_repo, next_tag, 0, "",
                             IF next_tag = NoTag THEN "needs_discovery=true"
                                                 ELSE "needs_discovery=false")

----------------------------------------------------------------------------
(* The scripts, as steps on the two files *)

CommitShas == {"abc123"}

\* seed files for add-bulk, as lists of their repository lines
SeedFiles ==
    { <<>>,
      <<"o/a", "o/b">>,
      <<"o/b", "o/a">>,
      <<"o/b", "o/b">> }

fileVars == <<manifestExists, manifest, queueExists, queue>>
driverVars == <<pc, trace, sincePick>>
stepVars == <<argTags, procs, tmpExists, tmpBytes, jsonBytes>>

\* queue_manager.load_queue: a missing file reads as the empty list
load_queue == IF queueExists THEN queue ELSE <<>>

\* queue_manager.load_manifest: a missing file reads as a fresh manifest
queue_manager_load_manifest ==
    IF manifestExists THEN manifest ELSE EmptyManifest

\* an add that appends without looking at the queue
queue_after_add_unchecked(q, org_repo) == Append(q, org_repo)

\* add_repo lines 82-85
queue_after_add(q, org_repo) ==
    IF Contains(q, org_repo) THEN q ELSE Append(q, org_repo)

\* queue_manager.py add <org/repo>.  Building the new record evaluates the
\* undefined name `null`, so for a repo without a record the run ends in a
\* NameError after the queue was written and before anything is saved.
add_repo(org_repo) ==
    LET m == queue_manager_load_manifest
        q == load_queue
        msg == IF Contains(q, org_repo) THEN "already_in_queue"
               ELSE "added_to_queue"
    IN  /\ IF queue_after_add(q, org_repo) # q
           THEN /\ queue' = queue_after_add(q, org_repo)
                /\ queueExists' = TRUE
           ELSE UNCHANGED <<queue, queueExists>>
        /\ IF org_repo \notin DOMAIN m.repos
           THEN out' = Result("add", org_repo, NoTag, 1, "NameError", msg)
           ELSE out' = Result("add", org_repo, NoTag, 0, "", msg)
        /\ UNCHANGED <<manifestExists, manifest, today, saves>>

\* add_bulk's loop: add_repo for each line of the seed file, in order; the
\* first NameError ends the run
RECURSIVE bulk_queue(_, _, _)
bulk_queue(q, m, repos) ==
    IF repos = <<>> THEN [queue |-> q, err |-> ""]
    ELSE LET q1 == queue_after_add(q, Head(repos))
         IN  IF Head(repos) \notin DOMAIN m.repos
             THEN [queue |-> q1, err |-> "NameError"]
             ELSE bulk_queue(q1, m, Tail(repos))

\* queue_manager.py add-bulk <file>, repos being the lines of the file
add_bulk(repos) ==
    LET b == bulk_queue(load_queue, queue_manager_load_manifest, repos)
    IN  /\ IF b.queue # load_queue
           THEN /\ queue' = b.queue
                /\ queueExists' = TRUE
           ELSE UNCHANGED <<queue, queueExists>>
        /\ out' = Result("add_bulk", "", NoTag,
                         IF b.err = "" THEN 0 ELSE 1, b.err, "")
        /\ UNCHANGED <<manifestExists, manifest, today, saves>>

\* queue_manager.py remove <org/repo>
remove_repo(org_repo) ==
    LET q == load_queue
    IN  /\ IF Contains(q, org_repo)
           THEN /\ queue' = RemoveFirst(q, org_repo)
                /\ queueExists' = TRUE
           ELSE UNCHANGED <<queue, queueExists>>
        /\ out' = Result("remove", org_repo, NoTag, 0, "",
                         IF Contains(q, org_repo) THEN "removed_from_queue"
                         ELSE "not_in_queue")
        /\ UNCHANGED <<manifestExists, manifest, today, saves>>

\* a script run either leaves manifest.json alone or saves m
NoSave(result) == [save |-> FALSE, m |-> manifest, out |-> result]
Save(m, result) == [save |-> TRUE, m |-> m, out |-> result]

Apply(o) ==
    /\ IF o.save
       THEN /\ manifest' = save_manifest(o.m)
            /\ saves' = saves + 1
       ELSE UNCHANGED <<manifest, saves>>
    /\ out' = o.out
    /\ UNCHANGED <<manifestExists, queueExists, queue, today>>

\* a discovery that always starts the record afresh
ensure_record_reset(rs, org_repo) ==
    [r \in DOMAIN rs \cup {org_repo} |->
        IF r = org_repo THEN NewRecord ELSE rs[r]]

\* discover_and_update lines 123-132
ensure_record(rs, org_repo) ==
    IF org_repo \notin DOMAIN rs
    THEN [r \in DOMAIN rs \cup {org_repo} |->
             IF r = org_repo THEN NewRecord ELSE rs[r]]
    ELSE rs

\* a discovery that stores the tags and leaves total_tags as it was
set_discovered_stale_total(rs, org_repo, selected) ==
    [rs EXCEPT ![org_repo].discovered_tags = SomeTags(selected)]

\* a discovery that stores None when no tag was selected
set_discovered_none_when_empty(rs, org_repo, selected) ==
    [rs EXCEPT ![org_repo].discovered_tags =
                   IF selected = <<>> THEN NoTags ELSE SomeTags(selected),
               ![org_repo].total_tags = Len(selected)]

\* discover_and_update lines 134-135
set_discovered(rs, org_repo, selected) ==
    [rs EXCEPT ![org_repo].discovered_tags = SomeTags(selected),
               ![org_repo].total_tags = Len(selected)]

\* discover_versions.py <org/repo> <path>, all_tags being git's tag listing
discover_and_update(org_repo, all_tags) ==
    LET selected == SelectedOf[all_tags]
    IN  IF ~manifestExists
        THEN Apply(NoSave(Result("discover", org_repo, NoTag, 1,
                                 "FileNotFoundError", "")))
        ELSE LET updated == set_discovered(
                                ensure_record(manifest.repos, org_repo),
                                org_repo, selected)
             IN  Apply(Save([manifest EXCEPT !.repos = updated],
                            [Result("discover", org_repo, NoTag, 0, "", "")
                                EXCEPT !.tags = selected]))

\* a mark_parsed that registers the unknown repo instead of failing
mark_parsed_unknown_registers(org_repo, tag) ==
    Save([manifest EXCEPT !.repos = ensure_record(manifest.repos, org_repo)],
         Result("mark_parsed", org_repo, tag, 0, "", "all_tags_parsed=true"))

\* mark_parsed lines 49-51
mark_parsed_unknown(org_repo, tag) ==
    NoSave(Result("mark_parsed", org_repo, tag, 1, "not_in_manifest", ""))

\* a mark_parsed without the duplicate check
already_parsed_never(repo_data, tag) == FALSE

\* mark_parsed lines 56-57
already_parsed(repo_data, tag) == tag \in ParsedTagSet(repo_data)

\* an entry that records the tag with a "v" in front
new_entry_raw_tag(org_repo, tag, commit_sha) ==
    [ tag          |-> <<"v">> \o tag,
      commit_sha   |-> commit_sha,
      parsed_at    |-> today,
      storage_repo |-> StorageRepoName(org_repo),
      deps_graph   |-> "None",
      parse_status |-> "complete" ]

\* mark_parsed lines 66-73
new_entry(org_repo, tag, commit_sha) ==
    [ tag          |-> tag,
      commit_sha   |-> commit_sha,
      parsed_at    |-> today,
      storage_repo |-> StorageRepoName(org_repo),
      deps_graph   |-> "None",
      parse_status |-> "complete" ]

\* an append that forgets to recompute parsed_count
append_parsed_stale_count(repo_data, entry) ==
    [repo_data EXCEPT !.parsed_tags = Append(repo_data.parsed_tags, entry),
                      !.last_parsed = entry.parsed_at]

\* mark_parsed lines 75-77
append_parsed(repo_data, entry) ==
    LET appended == Append(repo_data.parsed_tags, entry)
    IN  [repo_data EXCEPT !.parsed_tags = appended,
                          !.parsed_count = Len(appended),
                          !.last_parsed = entry.parsed_at]

\* a completion test that needs more parsed tags than discovered ones
all_tags_parsed_strict(repo_data) ==
    repo_data.parsed_count > repo_data.total_tags

\* mark_parsed line 85
all_tags_parsed(repo_data) == repo_data.parsed_count >= repo_data.total_tags

\* update_manifest.py <org/repo> <tag> <commit_sha>
mark_parsed(org_repo, tag, commit_sha) ==
    IF ~manifestExists
    THEN Apply(NoSave(Result("mark_parsed", org_repo, tag, 1,
                             "FileNotFoundError", "")))
    ELSE IF org_repo \notin DOMAIN manifest.repos
    THEN Apply(mark_parsed_unknown(org_repo, tag))
    ELSE IF already_parsed(manifest.repos[org_repo], tag)
    THEN Apply(NoSave(Result("mark_parsed", org_repo, tag, 0,
                             "already_parsed", "")))
    ELSE LET repo_data == append_parsed(manifest.repos[org_repo],
                                        new_entry(org_repo, tag, commit_sha))
         IN  Apply(Save([manifest EXCEPT !.repos[org_repo] = repo_data],
                        Result("mark_parsed", org_repo, tag, 0, "",
                               IF all_tags_parsed(repo_data)
                               THEN "all_tags_parsed=true"
                               ELSE "all_tags_parsed=false")))

\* a next-work that moves the repo it chose to the end of queue.txt
find_next_work_main_rotates ==
    /\ out' = next_work_output
    /\ queue' = IF out'.repo = "" THEN queue
                ELSE Append(RemoveFirst(queue, out'.repo), out'.repo)
    /\ UNCHANGED <<manifestExists, manifest, queueExists, today, saves>>

\* find_next_work.py
find_next_work_main ==
    /\ out' = next_work_output
    /\ UNCHANGED <<manifestExists, manifest, queueExists, queue, today, saves>>

\* the calendar day changes
NextDay ==
    /\ today < MaxDay
    /\ today' = today + 1
    /\ UNCHANGED <<manifestExists, manifest, queueExists, queue, saves, out>>

----------------------------------------------------------------------------
(* Files as chunks and script runs as processes.  json.dump reaches the    *)
(* file in MaxChunks writes; a chunk <<w, i>> is the i-th chunk of the     *)
(* manifest that writer w serialised.                                      *)

Procs == {"p1", "p2"}

\* the chunks of a completely written file
WholeFile(w) == [i \in 1..MaxChunks |-> <<w, i>>]

IdleProc ==
    [ pc |-> "idle", repo |-> "", tag |-> NoTag, loaded |-> EmptyManifest,
      m |-> EmptyManifest, fd |-> "none", written |-> 0, err |-> "" ]

\* no script is in the middle of a run; manifest.json is whole
NoSteps ==
    /\ argTags = <<>>
    /\ procs = [p \in Procs |-> IdleProc]
    /\ tmpExists = FALSE
    /\ tmpBytes = <<>>
    /\ jsonBytes = WholeFile("init")

----------------------------------------------------------------------------
(* Specification 1: an operator runs the scripts in any order *)

NoResult == Result("none", "", NoTag, 0, "", "")

Init ==
    /\ manifestExists \in BOOLEAN
    /\ manifest = EmptyManifest
    /\ queueExists \in BOOLEAN
    /\ queue = <<>>
    /\ today = 1
    /\ saves = 0
    /\ out = NoResult
    /\ pc = "ask"
    /\ trace = <<>>
    /\ sincePick = [r \in Repos |-> {}]
    /\ NoSteps

AddRepo == \E r \in Repos : add_repo(r) /\ UNCHANGED <<driverVars, stepVars>>

AddBulk ==
    \E repos \in SeedFiles : add_bulk(repos) /\ UNCHANGED <<driverVars, stepVars>>

RemoveRepo == \E r \in Repos : remove_repo(r) /\ UNCHANGED <<driverVars, stepVars>>

Discover ==
    \E r \in Repos, all_tags \in RawTagLists :
        /\ saves < MaxSaves
        /\ discover_and_update(r, all_tags)
        /\ UNCHANGED <<driverVars, stepVars>>

MarkParsed ==
    \E r \in Repos, tag \in TagArgs, sha \in CommitShas :
        /\ mark_parsed(r, tag, sha)
        /\ saves' <= MaxSaves
        /\ UNCHANGED <<driverVars, stepVars>>

NextWork == find_next_work_main /\ UNCHANGED <<driverVars, stepVars>>

Tick == NextDay /\ UNCHANGED <<driverVars, stepVars>>

Next ==
    AddRepo \/ AddBulk \/ RemoveRepo \/ Discover \/ MarkParsed \/ NextWork \/ Tick

Spec == Init /\ [][Next]_vars

----------------------------------------------------------------------------
(* Specification 2: the external driver loop.  It asks find_next_work.py   *)
(* for an action, performs it and records it: discover_versions.py for a   *)
(* discovery request, update_manifest.py for the returned tag.  The queue  *)
(* is fixed for the run.                                                   *)

\* the queues queue_manager.py can have written: no repo twice
QueueOrders ==
    { q \in UNION { [1..n -> Repos] : n \in 0..Cardinality(Repos) } :
        \A i, j \in 1..Len(q) : i # j => q[i] # q[j] }

DriverInit ==
    /\ manifestExists = TRUE
    /\ manifest = EmptyManifest
    /\ queueExists = TRUE
    /\ queue \in QueueOrders
    /\ today = 1
    /\ saves = 0
    /\ out = NoResult
    /\ pc = "ask"
    /\ trace = <<>>
    /\ sincePick = [r \in Repos |-> {}]
    /\ NoSteps

Pending == trace[Len(trace)]

DriverAsk ==
    /\ pc = "ask"
    /\ find_next_work_main
    /\ IF out'.repo = ""
       THEN UNCHANGED <<pc, trace, sincePick>>
       ELSE /\ pc' = "act"
            /\ trace' = Append(trace,
                   [ repo |-> out'.repo, tag |-> out'.tag,
                     needs_discovery |-> (out'.msg = "needs_discovery=true") ])
            /\ sincePick' = [r \in Repos |->
                   IF r = out'.repo THEN {} ELSE sincePick[r] \cup {out'.repo}]
    /\ UNCHANGED stepVars

DriverDiscover ==
    /\ pc = "act"
    /\ Pending.needs_discovery
    /\ \E all_tags \in DriverTagLists :
          discover_and_update(Pending.repo, all_tags)
    /\ pc' = "ask"
    /\ UNCHANGED <<trace, sincePick, stepVars>>

DriverMarkParsed ==
    /\ pc = "act"
    /\ ~Pending.needs_discovery
    /\ \E sha \in CommitShas : mark_parsed(Pending.repo, Pending.tag, sha)
    /\ pc' = "ask"
    /\ UNCHANGED <<trace, sincePick, stepVars>>

DriverTick == NextDay /\ UNCHANGED <<driverVars, stepVars>>

DriverNext == DriverAsk \/ DriverDiscover \/ DriverMarkParsed \/ DriverTick

DriverSpec == DriverInit /\ [][DriverNext]_vars

\* the driver that goes on: it asks again after each recorded action and
\* performs and records every action it was handed
DriverFairSpec ==
    /\ DriverInit
    /\ [][DriverNext]_vars
    /\ WF_vars(DriverAsk)
    /\ WF_vars(DriverDiscover)
    /\ WF_vars(DriverMarkParsed)

----------------------------------------------------------------------------
(* Specification 3: find_next_work.py on the manifests and queues the      *)
(* scripts can have produced.                                              *)

InputEntry(org_repo, tag, day) ==
    [ tag          |-> tag,
      commit_sha   |-> "abc123",
      parsed_at    |-> day,
      storage_repo |-> StorageRepoName(org_repo),
      deps_graph   |-> "None",
      parse_status |-> "complete" ]

\* parse histories: tags marked in order, on non-decreasing days
InputHistories(org_repo) ==
    {<<>>}
      \cup { <<InputEntry(org_repo, t1010, d)>> : d \in 1..MaxDay }
      \cup { <<InputEntry(org_repo, t1010, d[1]), InputEntry(org_repo, t110, d[2])>> :
               d \in { e \in (1..MaxDay) \X (1..MaxDay) : e[1] <= e[2] } }

\* the discovered_tags values discovery can have stored
InputSelections == { SelectedOf[l] : l \in RawTagLists }

InputRecord(selected, h) ==
    [ added_at        |-> 1,
      priority        |-> 1,
      parsed_tags     |-> h,
      discovered_tags |-> SomeTags(selected),
      total_tags      |-> Len(selected),
      parsed_count    |-> Len(h),
      last_parsed     |-> IF h = <<>> THEN NoDate ELSE h[Len(h)].parsed_at ]

InputRecords(org_repo) ==
    { InputRecord(sel, h) : sel \in InputSelections,
                            h \in InputHistories(org_repo) }

RECURSIVE InputReposOver(_)
InputReposOver(D) ==
    IF D = {} THEN {EmptyRepos}
    ELSE LET r == CHOOSE x \in D : TRUE
         IN  { [x \in D |-> IF x = r THEN rec ELSE rs[x]] :
                 rec \in InputRecords(r), rs \in InputReposOver(D \ {r}) }

InputRepos == UNION { InputReposOver(D) : D \in SUBSET Repos }

SchedInit ==
    /\ manifestExists = TRUE
    /\ \E rs \in InputRepos :
          manifest = [last_updated |-> 1, repos |-> rs, stats |-> StatsOf(rs)]
    /\ queueExists = TRUE
    /\ queue \in QueueOrders
    /\ today = MaxDay
    /\ saves = 1
    /\ out = NoResult
    /\ pc = "ask"
    /\ trace = <<>>
    /\ sincePick = [r \in Repos |-> {}]
    /\ NoSteps

SchedNext == NextWork

SchedSpec == SchedInit /\ [][SchedNext]_vars

----------------------------------------------------------------------------
(* Specification 4: the version functions of discover_versions.py on tag    *)
(* lists of up to MaxListLen tags.                                          *)

StrictTags == {t109, t1010, t1009, t110, t200}
VersionTags == StrictTags \cup {v100, vv200, rc120, t12, bogus}

VersionInputs == UNION { [1..n -> VersionTags] : n \in 0..MaxListLen }

VersionInit ==
    /\ manifestExists = TRUE
    /\ manifest = EmptyManifest
    /\ queueExists = TRUE
    /\ queue = <<>>
    /\ today = 1
    /\ saves = 0
    /\ out = NoResult
    /\ pc = "ask"
    /\ trace = <<>>
    /\ sincePick = [r \in Repos |-> {}]
    /\ argTags \in VersionInputs
    /\ procs = [p \in Procs |-> IdleProc]
    /\ tmpExists = FALSE
    /\ tmpBytes = <<>>
    /\ jsonBytes = WholeFile("init")

versionFrame ==
    <<manifestExists, manifest, queueExists, queue, today, saves, pc, trace,
      sincePick, argTags, procs, tmpExists, tmpBytes, jsonBytes>>

\* filter_semver_tags(all_tags)
FilterTags ==
    /\ out' = [Result("filter", "", NoTag, 0, "", "")
                  EXCEPT !.tags = filter_semver_tags(argTags)]
    /\ UNCHANGED versionFrame

\* select_versions_smart(semver_tags), called on strict X.Y.Z strings
SelectVersions ==
    /\ \A i \in 1..Len(argTags) : semver_pattern(argTags[i])
    /\ out' = [Result("select", "", NoTag, 0, "", "")
                  EXCEPT !.tags = select_versions_smart(argTags)]
    /\ UNCHANGED versionFrame

VersionNext == FilterTags \/ SelectVersions

VersionSpec == VersionInit /\ [][VersionNext]_vars

----------------------------------------------------------------------------
(* Specifications 5 and 6: update_manifest.py as a process that loads      *)
(* manifest.json, changes its copy and saves it through manifest.tmp, one  *)
(* file operation per step.  A process may be killed between two steps.    *)
(* Specification 5 runs one process, specification 6 runs two.             *)

OffProc == [IdleProc EXCEPT !.pc = "off"]

\* a file is whole when it holds every chunk of one writer's manifest
IsWhole(bytes) ==
    /\ Len(bytes) = MaxChunks
    /\ \A i \in 1..MaxChunks : bytes[i] = <<bytes[1][1], i>>

\* what json.load(manifest.json) yields once the file holds bytes
ManifestOf(bytes) ==
    IF IsWhole(bytes) /\ bytes[1][1] \in Procs
    THEN procs[bytes[1][1]].m
    ELSE manifest

\* f.write of chunk i at offset i by writer p
WriteChunk(bytes, p, i) ==
    [k \in 1..(IF Len(bytes) > i THEN Len(bytes) ELSE i) |->
        IF k = i THEN <<p, i>>
        ELSE IF k <= Len(bytes) THEN bytes[k]
        ELSE <<"hole", k>>]

\* a save that writes manifest.json itself
tmp_path_in_place == "json"

\* save_manifest line 35: MANIFEST_FILE.with_suffix(".tmp")
tmp_path == "tmp"

\* a save that applies its change to the manifest now on disk
manifest_to_save_reloaded(p) ==
    [manifest EXCEPT !.repos[procs[p].repo] =
        append_parsed(manifest.repos[procs[p].repo],
                      new_entry(procs[p].repo, procs[p].tag, "abc123"))]

\* mark_parsed line 79: the copy loaded at line 45, with the entry appended
manifest_to_save(p) == procs[p].m

\* main and mark_parsed lines 43-77: load manifest.json and change the copy
ProcLoad(p) ==
    /\ procs[p].pc = "idle"
    /\ \E r \in Repos, tag \in TagArgs, sha \in CommitShas :
          LET started == [procs[p] EXCEPT !.repo = r, !.tag = tag]
          IN  procs' = [procs EXCEPT ![p] =
                IF ~manifestExists
                THEN [started EXCEPT !.pc = "failed",
                                     !.err = "FileNotFoundError"]
                ELSE IF ~IsWhole(jsonBytes)
                THEN [started EXCEPT !.pc = "failed",
                                     !.err = "JSONDecodeError"]
                ELSE IF r \notin DOMAIN manifest.repos
                THEN [started EXCEPT !.pc = "failed", !.loaded = manifest,
                                     !.m = manifest,
                                     !.err = "not_in_manifest"]
                ELSE IF already_parsed(manifest.repos[r], tag)
                THEN [started EXCEPT !.pc = "done", !.loaded = manifest,
                                     !.m = manifest,
                                     !.err = "already_parsed"]
                ELSE [started EXCEPT
                        !.pc = "save",
                        !.loaded = manifest,
                        !.m = [manifest EXCEPT !.repos[r] =
                                 append_parsed(manifest.repos[r],
                                               new_entry(r, tag, sha))]]]
    /\ UNCHANGED <<manifestExists, manifest, queueExists, queue, today, saves,
                   out, driverVars, argTags, tmpExists, tmpBytes, jsonBytes>>

\* save_manifest lines 24-36: stamp the copy, recompute stats, open the
\* temporary file for writing (which creates or truncates it)
ProcOpen(p) ==
    /\ procs[p].pc = "save"
    /\ procs' = [procs EXCEPT ![p].pc = "write",
                              ![p].m = save_manifest(manifest_to_save(p)),
                              ![p].fd = tmp_path,
                              ![p].written = 0]
    /\ saves' = saves + 1
    /\ IF tmp_path = "tmp"
       THEN /\ tmpExists' = TRUE
            /\ tmpBytes' = <<>>
            /\ UNCHANGED <<manifestExists, jsonBytes>>
       ELSE /\ manifestExists' = TRUE
            /\ jsonBytes' = <<>>
            /\ UNCHANGED <<tmpExists, tmpBytes>>
    /\ UNCHANGED <<manifest, queueExists, queue, today, out, driverVars,
                   argTags>>

\* save_manifest lines 36-37: json.dump reaches the open file chunk by
\* chunk; leaving the with block after the last chunk closes it
ProcWrite(p) ==
    /\ procs[p].pc = "write"
    /\ LET i == procs[p].written + 1
       IN  /\ procs' = [procs EXCEPT
                  ![p].written = i,
                  ![p].pc = IF i = MaxChunks THEN "rename" ELSE "write",
                  ![p].fd = IF i = MaxChunks THEN "none" ELSE procs[p].fd]
           /\ tmpBytes' = IF procs[p].fd = "tmp"
                          THEN WriteChunk(tmpBytes, p, i) ELSE tmpBytes
           /\ jsonBytes' = IF procs[p].fd = "json"
                           THEN WriteChunk(jsonBytes, p, i) ELSE jsonBytes
    /\ manifest' = IF procs[p].fd = "json" THEN ManifestOf(jsonBytes')
                   ELSE manifest
    /\ UNCHANGED <<manifestExists, queueExists, queue, today, saves, out,
                   driverVars, argTags, tmpExists>>

\* save_manifest line 40: tmp.rename(MANIFEST_FILE).  The file that was
\* manifest.tmp is manifest.json from now on, also for a process that still
\* has it open; a missing manifest.tmp raises FileNotFoundError.
ProcRename(p) ==
    /\ procs[p].pc = "rename"
    /\ IF tmp_path = "json"
       THEN /\ procs' = [procs EXCEPT ![p].pc = "done"]
            /\ UNCHANGED <<manifestExists, manifest, tmpExists, tmpBytes,
                           jsonBytes>>
       ELSE IF ~tmpExists
       THEN /\ procs' = [procs EXCEPT ![p].pc = "failed",
                                      ![p].err = "FileNotFoundError"]
            /\ UNCHANGED <<manifestExists, manifest, tmpExists, tmpBytes,
                           jsonBytes>>
       ELSE /\ procs' = [q \in Procs |->
                  [procs[q] EXCEPT
                     !.pc = IF q = p THEN "done" ELSE procs[q].pc,
                     !.fd = IF procs[q].fd = "tmp" THEN "json"
                            ELSE IF procs[q].fd = "json" THEN "unlinked"
                            ELSE procs[q].fd]]
            /\ manifestExists' = TRUE
            /\ jsonBytes' = tmpBytes
            /\ manifest' = ManifestOf(tmpBytes)
            /\ tmpExists' = FALSE
            /\ tmpBytes' = <<>>
    /\ UNCHANGED <<queueExists, queue, today, saves, out, driverVars, argTags>>

\* the process is killed during its save; the files stay as they are
ProcCrash(p) ==
    /\ procs[p].pc \in {"save", "write", "rename"}
    /\ procs' = [procs EXCEPT ![p].pc = "crashed", ![p].fd = "none"]
    /\ UNCHANGED <<manifestExists, manifest, queueExists, queue, today, saves,
                   out, driverVars, argTags, tmpExists, tmpBytes, jsonBytes>>

Load == \E p \in Procs : ProcLoad(p)
Open == \E p \in Procs : ProcOpen(p)
Write == \E p \in Procs : ProcWrite(p)
Rename == \E p \in Procs : ProcRename(p)
Crash == \E p \in Procs : ProcCrash(p)

ProcNext == Load \/ Open \/ Write \/ Rename \/ Crash

\* manifests with o/a discovered and some of its tags parsed
ProcManifests ==
    { [ last_updated |-> 1,
        repos |-> [r \in {"o/a"} |-> InputRecord(sel, h)],
        stats |-> StatsOf([r \in {"o/a"} |-> InputRecord(sel, h)]) ] :
        sel \in InputSelections,
        h \in InputHistories("o/a") }

ProcInit(running) ==
    /\ manifestExists = TRUE
    /\ manifest \in ProcManifests
    /\ queueExists = TRUE
    /\ queue = <<"o/a">>
    /\ today = 1
    /\ saves = 1
    /\ out = NoResult
    /\ pc = "ask"
    /\ trace = <<>>
    /\ sincePick = [r \in Repos |-> {}]
    /\ argTags = <<>>
    /\ procs = [p \in Procs |-> IF p \in running THEN IdleProc ELSE OffProc]
    /\ tmpExists = FALSE
    /\ tmpBytes = <<>>
    /\ jsonBytes = WholeFile("init")

SaveInit == ProcInit({"p1"})

SaveSpec == SaveInit /\ [][ProcNext]_vars

ConcInit == ProcInit(Procs)

ConcSpec == ConcInit /\ [][ProcNext]_vars

----------------------------------------------------------------------------
(* Properties *)

RecordOf(m, r) == m.repos[r]

\* the step is a run of the script op (the day change keeps out as it is)
Ran(op) == out'.op = op /\ today' = today

TagCount(rec, tag) ==
    Cardinality({ i \in 1..Len(rec.parsed_tags) : rec.parsed_tags[i].tag = tag })

\* C1: mark_parsed is idempotent per (repo, tag).  Every successful
\* mark_parsed(repo, tag) leaves exactly one parsed_tags entry for the tag and
\* a parsed_count equal to the number of distinct tags reported so far (the
\* tags parsed before plus this one), and a call for a tag that is already
\* parsed leaves the whole persisted manifest as it was: nothing is saved.
C1_MarkParsedIdempotent ==
    [][ (Ran("mark_parsed") /\ out'.exit = 0) =>
          LET r == out'.repo
              tag == out'.tag
              before == RecordOf(manifest, r)
              after == RecordOf(manifest', r)
          IN  /\ TagCount(after, tag) = 1
              /\ after.parsed_count
                   = Cardinality(ParsedTagSet(before) \cup {tag})
              /\ tag \in ParsedTagSet(before) =>
                   /\ manifest' = manifest
                   /\ manifestExists' = manifestExists
                   /\ saves' = saves
                   /\ out'.err = "already_parsed" ]_vars

\* a repeated report has just been answered, on a repo with two parsed tags
C1_Witness ==
    /\ out.op = "mark_parsed"
    /\ out.err = "already_parsed"
    /\ RecordOf(manifest, out.repo).parsed_count = 2

DiscoverAction(r) == [repo |-> r, tag |-> NoTag, needs_discovery |-> TRUE]
ParseAction(r, tag) == [repo |-> r, tag |-> tag, needs_discovery |-> FALSE]

\* C2: oldest-unparsed-first within one repository.  When the repo is the
\* only queue member, the actions handed to the driver are, in order, the
\* discovery and then Parse(repo, d1), ..., Parse(repo, dn) for the discovered
\* tags d1 < ... < dn; next-work reports no work only after all n were handed
\* out, and never hands out more.
C2_OldestFirst ==
    Len(queue) = 1 =>
        LET r == queue[1]
        IN  IF r \notin DOMAIN manifest.repos
            THEN trace \in {<<>>, <<DiscoverAction(r)>>}
            ELSE LET d == RecordOf(manifest, r).discovered_tags.tags
                     expected == <<DiscoverAction(r)>>
                                    \o [i \in 1..Len(d) |-> ParseAction(r, d[i])]
                 IN  /\ \A i, j \in 1..Len(d) :
                           i < j => VersionLess(version_parse(d[i]),
                                                version_parse(d[j]))
                     /\ Len(trace) <= Len(expected)
                     /\ \A i \in 1..Len(trace) : trace[i] = expected[i]
                     /\ (pc = "ask" /\ out.op = "next_work") =>
                           /\ out.repo = ""
                           /\ trace = expected
                     /\ (pc = "ask" /\ out.op = "mark_parsed") =>
                           Len(trace) - 1 = RecordOf(manifest, r).parsed_count

\* two tags were handed out in order and the third call found no work
C2_Witness ==
    /\ Len(queue) = 1
    /\ Len(trace) = 3
    /\ pc = "ask"
    /\ out.op = "next_work"
    /\ out.repo = ""

\* C3: find_next_repo returns the candidate that is minimal under the
\* fairness key.  No candidate outranks the chosen one, where a candidate
\* without last_parsed outranks every candidate with a date and an earlier
\* date outranks a later one, and every candidate that stands before the
\* chosen one in the queue is outranked by it.
Outranks(a, b) ==
    \/ a[2] = NoDate /\ b[2] # NoDate
    \/ a[2] # NoDate /\ b[2] # NoDate /\ a[2] < b[2]

C3_FairnessKeyMinimum ==
    out.op = "next_work" =>
        LET work == repos_with_work(queue, manifest)
        IN  IF work = <<>> THEN out.repo = ""
            ELSE \E i \in 1..Len(work) :
                    /\ work[i][1] = out.repo
                    /\ \A j \in 1..Len(work) : ~Outranks(work[j], work[i])
                    /\ \A j \in 1..(i - 1) : Outranks(work[i], work[j])

\* the second repo of the queue was chosen because its date is the earlier
C3_Witness ==
    /\ out.op = "next_work"
    /\ Len(repos_with_work(queue, manifest)) = 2
    /\ out.repo = queue[2]
    /\ repos_with_work(queue, manifest)[1][2] # NoDate
    /\ repos_with_work(queue, manifest)[2][2] # NoDate

\* two candidates carry the same date and the first in the queue was chosen
C3_TieWitness ==
    /\ out.op = "next_work"
    /\ Len(repos_with_work(queue, manifest)) = 2
    /\ out.repo = queue[1]
    /\ repos_with_work(queue, manifest)[1][2] # NoDate
    /\ repos_with_work(queue, manifest)[1][2] = repos_with_work(queue, manifest)[2][2]

LastParsedOf(r) ==
    IF r \in DOMAIN manifest.repos THEN RecordOf(manifest, r).last_parsed
                                   ELSE NoDate

Eligible(r) ==
    \E i \in 1..Len(repos_with_work(queue, manifest)) :
        repos_with_work(queue, manifest)[i][1] = r

OlderOrAbsent(b, a) ==
    \/ LastParsedOf(b) = NoDate
    \/ LastParsedOf(a) # NoDate /\ LastParsedOf(b) < LastParsedOf(a)

\* C4: starvation-free round-robin.  When the driver performs and records
\* every action, next-work never chooses a repository a second time while
\* another repository that is eligible (queued, with work) and whose
\* last_parsed is older or absent has not been chosen since the first pick.
C4_RoundRobin ==
    [][ (pc = "ask" /\ pc' = "act") =>
          LET a == out'.repo
          IN  (\E i \in 1..Len(trace) : trace[i].repo = a) =>
                \A b \in Repos \ {a} :
                    (Eligible(b) /\ OlderOrAbsent(b, a)) => b \in sincePick[a] ]_vars

\* C5: next-work never returns a Parse action for a repository whose
\* parsed_count equals total_tags, and a discovered repository with
\* parsed_count = total_tags is no candidate of find_next_repo.
C5_NoParseWhenFullyParsed ==
    /\ (out.op = "next_work" /\ out.tag # NoTag
            /\ out.msg = "needs_discovery=false") =>
          /\ out.repo \in DOMAIN manifest.repos
          /\ RecordOf(manifest, out.repo).parsed_count
                # RecordOf(manifest, out.repo).total_tags
    /\ \A r \in DOMAIN manifest.repos :
          (/\ ~RecordOf(manifest, r).discovered_tags.none
           /\ RecordOf(manifest, r).parsed_count = RecordOf(manifest, r).total_tags)
             => ~Eligible(r)

\* next-work answered while a queued repo with tags is fully parsed
C5_Witness ==
    /\ out.op = "next_work"
    /\ manifestExists
    /\ \E i \in 1..Len(queue) :
          /\ queue[i] \in DOMAIN manifest.repos
          /\ RecordOf(manifest, queue[i]).total_tags >= 1
          /\ RecordOf(manifest, queue[i]).parsed_count
                = RecordOf(manifest, queue[i]).total_tags

\* the slots <<r, i>>, one per counted tag of every repo
Slots(rs, count(_)) ==
    UNION { { <<r, i>> : i \in 1..count(rs[r]) } : r \in DOMAIN rs }

ParsedCountOf(rec) == rec.parsed_count
TotalTagsOf(rec) == rec.total_tags

\* C6: the persisted stats are the projection of repos: total_repos is the
\* number of records, total_tags_parsed the sum of parsed_count and
\* total_tags_pending the sum of total_tags - parsed_count.
C6_StatsAreProjection ==
    manifestExists =>
        /\ manifest.stats.total_repos = Cardinality(DOMAIN manifest.repos)
        /\ manifest.stats.total_tags_parsed
              = Cardinality(Slots(manifest.repos, ParsedCountOf))
        /\ manifest.stats.total_tags_pending
              = Cardinality(Slots(manifest.repos, TotalTagsOf))
                  - Cardinality(Slots(manifest.repos, ParsedCountOf))

\* a parse was recorded with two repos in the manifest
C6_Witness ==
    /\ out.op = "mark_parsed"
    /\ out.exit = 0
    /\ out.err = ""
    /\ manifest.stats.total_repos = 2
    /\ manifest.stats.total_tags_parsed >= 1

\* C7: every repo record has parsed_count = len(parsed_tags), and
\* total_tags = len(discovered_tags) once discovered, 0 while undiscovered.
C7_CountsMatchLists ==
    manifestExists =>
        \A r \in DOMAIN manifest.repos :
            LET rec == RecordOf(manifest, r)
            IN  /\ rec.parsed_count = Len(rec.parsed_tags)
                /\ IF rec.discovered_tags.none
                   THEN rec.total_tags = 0
                   ELSE rec.total_tags = Len(rec.discovered_tags.tags)

\* a repo with two discovered tags, both parsed
C7_Witness ==
    \E r \in DOMAIN manifest.repos :
        /\ Len(RecordOf(manifest, r).parsed_tags) = 2
        /\ Len(RecordOf(manifest, r).discovered_tags.tags) = 2

\* C8: mark_parsed for a repository without a record fails (exit status 1)
\* and leaves the persisted manifest unchanged.
C8_UnknownRepoFails ==
    [][ (Ran("mark_parsed")
           /\ (~manifestExists \/ out'.repo \notin DOMAIN manifest.repos)) =>
          /\ out'.exit = 1
          /\ manifest' = manifest
          /\ manifestExists' = manifestExists
          /\ saves' = saves ]_vars

\* the failure was reported while another repo is registered
C8_Witness ==
    /\ out.op = "mark_parsed"
    /\ out.err = "not_in_manifest"
    /\ out.exit = 1
    /\ DOMAIN manifest.repos # {}

NewTagRecorded == out.op = "mark_parsed" /\ out.exit = 0 /\ out.err = ""

\* C9 as stated: a newly recorded tag is answered with all_tags_parsed=true
\* exactly when parsed_count then equals total_tags.
C9_AllParsedIffEqual ==
    NewTagRecorded =>
        (out.msg = "all_tags_parsed=true"
            <=> RecordOf(manifest, out.repo).parsed_count
                    = RecordOf(manifest, out.repo).total_tags)

\* C9 amended: a newly recorded tag is answered with all_tags_parsed=true
\* exactly when parsed_count then is at least total_tags, and with
\* all_tags_parsed=false otherwise.
C9_AllParsedIffAtLeast ==
    NewTagRecorded =>
        /\ out.msg \in {"all_tags_parsed=true", "all_tags_parsed=false"}
        /\ out.msg = "all_tags_parsed=true"
              <=> RecordOf(manifest, out.repo).parsed_count
                      >= RecordOf(manifest, out.repo).total_tags

\* a new tag was recorded and parsed_count went past total_tags
C9_Witness ==
    /\ NewTagRecorded
    /\ RecordOf(manifest, out.repo).parsed_count
          > RecordOf(manifest, out.repo).total_tags
    /\ out.msg = "all_tags_parsed=true"

\* C10: a successful discover_and_update creates the record if absent, sets
\* discovered_tags and total_tags to the selected versions, and on an
\* existing record leaves added_at, priority, parsed_tags, parsed_count and
\* last_parsed alone; every other repo's record stays as it was.
C10_DiscoverFrame ==
    [][ (Ran("discover") /\ out'.exit = 0) =>
          LET r == out'.repo
              old == manifest.repos
              new == manifest'.repos
          IN  /\ DOMAIN new = DOMAIN old \cup {r}
              /\ new[r].discovered_tags = SomeTags(out'.tags)
              /\ new[r].total_tags = Len(out'.tags)
              /\ \A x \in DOMAIN old \ {r} : new[x] = old[x]
              /\ r \in DOMAIN old =>
                    /\ new[r].added_at = old[r].added_at
                    /\ new[r].priority = old[r].priority
                    /\ new[r].parsed_tags = old[r].parsed_tags
                    /\ new[r].parsed_count = old[r].parsed_count
                    /\ new[r].last_parsed = old[r].last_parsed
              /\ r \notin DOMAIN old =>
                    /\ new[r].added_at = today
                    /\ new[r].parsed_tags = <<>>
                    /\ new[r].parsed_count = 0
                    /\ new[r].last_parsed = NoDate ]_vars

\* a repo that has a parsed tag was discovered again, with tags found
C10_Witness ==
    /\ out.op = "discover"
    /\ out.exit = 0
    /\ RecordOf(manifest, out.repo).parsed_count >= 1
    /\ out.tags # <<>>

IsPrefix(s, t) == Len(s) <= Len(t) /\ SubSeq(t, 1, Len(s)) = s

\* C11: whatever script runs (queue add, add-bulk, remove, discover,
\* mark-parsed, next-work), every record of the manifest stays, a record
\* whose discovered_tags was set never goes back to None, and parsed_tags
\* only grows at its end: the old list is a prefix of the new one.
C11_RecordsImmortal ==
    [][ \A r \in DOMAIN manifest.repos :
          /\ r \in DOMAIN manifest'.repos
          /\ ~manifest.repos[r].discovered_tags.none
                => ~manifest'.repos[r].discovered_tags.none
          /\ IsPrefix(manifest.repos[r].parsed_tags,
                      manifest'.repos[r].parsed_tags) ]_vars

\* a repo with a parse history was removed from the queue and kept its record
C11_Witness ==
    /\ out.op = "remove"
    /\ out.msg = "removed_from_queue"
    /\ out.repo \in DOMAIN manifest.repos
    /\ manifest.repos[out.repo].parsed_count >= 1
    /\ ~Contains(queue, out.repo)

Undiscovered(repo_data) ==
    /\ repo_data.discovered_tags.none
    /\ repo_data.total_tags = 0
    /\ repo_data.parsed_tags = <<>>
    /\ repo_data.parsed_count = 0
    /\ repo_data.last_parsed = NoDate

\* C12: when `queue add r` ran for a repo r without a record, the saved
\* manifest holds a record for r in the undiscovered state and r is in the
\* queue.
C12_AddRegistersRepo ==
    [][ (Ran("add") /\ out'.repo \notin DOMAIN queue_manager_load_manifest.repos)
          => /\ manifestExists'
             /\ out'.repo \in DOMAIN manifest'.repos
             /\ Undiscovered(manifest'.repos[out'.repo])
             /\ Contains(queue', out'.repo) ]_vars

NoDuplicates(q) == \A i, j \in 1..Len(q) : i # j => q[i] # q[j]

\* C13: starting from an empty or absent queue.txt, the queue never holds a
\* repo twice; adding a repo that is already in the queue leaves queue.txt
\* as it was; after remove r, r is not in the queue.
C13_QueueHasNoDuplicates ==
    [][ /\ NoDuplicates(queue')
        /\ (Ran("add") /\ Contains(load_queue, out'.repo))
              => (queue' = queue /\ queueExists' = queueExists)
        /\ Ran("remove") => ~Contains(queue', out'.repo) ]_vars

\* a repo already in a queue of two was added again
C13_Witness ==
    /\ out.op = "add"
    /\ out.msg = "already_in_queue"
    /\ Len(queue) = 2

\* C15: with no manifest.json, discover for r succeeds and saves a manifest
\* whose only record is r, and mark-parsed fails as for an unknown repo, not
\* with a missing file.
C15_MissingManifestIsFresh ==
    [][ ~manifestExists =>
          /\ Ran("discover") =>
                /\ out'.exit = 0
                /\ manifestExists'
                /\ DOMAIN manifest'.repos = {out'.repo}
          /\ Ran("mark_parsed") => out'.err = "not_in_manifest" ]_vars

\* C16: a run of next-work changes neither manifest.json nor queue.txt, and
\* when the run before it was next-work too, it prints the same repo, tag
\* and discovery request again.
C16_NextWorkReadOnly ==
    [][ Ran("next_work") =>
          /\ fileVars' = fileVars
          /\ saves' = saves
          /\ out.op = "next_work" => out' = out ]_vars

\* next-work handed out a tag to parse
C16_Witness ==
    /\ out.op = "next_work"
    /\ out.repo # ""
    /\ out.tag # NoTag
    /\ out.msg = "needs_discovery=false"

Patch(tag) == version_parse(tag)[3]

\* C18: for a list of strict X.Y.Z strings, select_versions_smart returns
\* tags of the list, exactly one for each (major, minor) pair that occurs
\* in it, that one having the numerically greatest patch of its pair, and
\* the result ascends by (major, minor, patch).
C18_LatestPatchPerSeries ==
    out.op = "select" =>
      LET result == out.tags
      IN  /\ \A i \in 1..Len(result) :
                \E j \in 1..Len(argTags) : argTags[j] = result[i]
          /\ \A j \in 1..Len(argTags) :
                Cardinality({ i \in 1..Len(result) :
                    MajorMinor(result[i]) = MajorMinor(argTags[j]) }) = 1
          /\ \A i \in 1..Len(result), j \in 1..Len(argTags) :
                MajorMinor(argTags[j]) = MajorMinor(result[i])
                  => Patch(argTags[j]) <= Patch(result[i])
          /\ \A i \in 1..(Len(result) - 1) :
                VersionLess(version_parse(result[i]),
                            version_parse(result[i + 1]))

\* patch 10 was chosen over patch 9 and placed before the 1.1 series
C18_Witness ==
    /\ out.op = "select"
    /\ argTags = <<t110, t109, t1010>>
    /\ out.tags = <<t1010, t110>>

\* three dot-separated runs of decimal digits
StrictXYZ(s) ==
    \E i, j \in 1..Len(s) :
        /\ i < j
        /\ s[i] = "." /\ s[j] = "."
        /\ \A k \in 1..Len(s) : k \notin {i, j} => s[k] \in Digits
        /\ 1 < i /\ i + 1 < j /\ j < Len(s)

\* kept: strict X.Y.Z, or one "v" followed by strict X.Y.Z
KeptAs(tag) ==
    IF StrictXYZ(tag) THEN <<tag>>
    ELSE IF tag # <<>> /\ Head(tag) = "v" /\ StrictXYZ(Tail(tag))
    THEN <<Tail(tag)>>
    ELSE <<>>

RECURSIVE KeptTags(_)
KeptTags(tags) ==
    IF tags = <<>> THEN <<>> ELSE KeptAs(Head(tags)) \o KeptTags(Tail(tags))

\* C19: filter_semver_tags keeps a raw tag exactly when it is three
\* dot-separated runs of digits, optionally preceded by one leading "v",
\* and returns the kept tags without that "v"; every other tag, one with
\* two leading "v" included, is dropped.
C19_OneLeadingV ==
    out.op = "filter" => out.tags = KeptTags(argTags)

DiscoveredSet(repo_data) ==
    { repo_data.discovered_tags.tags[i] :
        i \in 1..Len(repo_data.discovered_tags.tags) }

ParsedWereDiscovered(repo_data) ==
    ParsedTagSet(repo_data) \subseteq DiscoveredSet(repo_data)

\* C20 as stated: in every manifest reachable by discover and mark-parsed
\* runs, with any tag argument and with repeated discovery, every tag in a
\* repo's parsed_tags is one of its discovered_tags.
C20_ParsedWereDiscovered ==
    \A r \in DOMAIN manifest.repos : ParsedWereDiscovered(manifest.repos[r])

\* the step is not a mark-parsed of r with a tag outside r's discovered_tags
\* and not a discovery of r whose selection lacks a tag r already parsed
InBand(r) ==
    /\ (Ran("mark_parsed") /\ out'.repo = r /\ out'.err = "")
          => out'.tag \in DiscoveredSet(manifest.repos[r])
    /\ (Ran("discover") /\ out'.repo = r /\ out'.exit = 0)
          => \A i \in 1..Len(manifest'.repos[r].parsed_tags) :
                \E j \in 1..Len(out'.tags) :
                    out'.tags[j] = manifest'.repos[r].parsed_tags[i].tag

\* C20, amended: the membership of every parsed tag in discovered_tags is
\* kept by every script run except a mark-parsed whose tag argument is not
\* in the repo's discovered_tags and a re-discovery whose selection drops a
\* tag the repo has already parsed.
C20_InBandKeepsMembership ==
    [][ \A r \in DOMAIN manifest'.repos :
          ( /\ r \in DOMAIN manifest.repos
                  => ParsedWereDiscovered(manifest.repos[r])
            /\ InBand(r) )
            => ParsedWereDiscovered(manifest'.repos[r]) ]_vars

\* both discovered tags of a repo were marked, each being in the list
C20_Witness ==
    /\ out.op = "mark_parsed"
    /\ out.err = ""
    /\ manifest.repos[out.repo].parsed_count = 2
    /\ manifest.repos[out.repo].total_tags = 2
    /\ ParsedWereDiscovered(manifest.repos[out.repo])

\* C14: with one process saving, manifest.json is at every step (and after
\* a kill at any step) a whole file holding either the manifest the process
\* loaded or the manifest it saves, and the latter once the save returned.
C14_SaveIsAtomic ==
    /\ IsWhole(jsonBytes)
    /\ \A p \in Procs :
          /\ procs[p].pc \in {"save", "write", "rename", "crashed", "done"}
                => (manifest = procs[p].loaded \/ manifest = procs[p].m)
          /\ (procs[p].pc = "done" /\ procs[p].err = "")
                => manifest = procs[p].m

\* the process was killed with manifest.tmp half written
C14_Witness ==
    \E p \in Procs :
        /\ procs[p].pc = "crashed"
        /\ tmpExists
        /\ Len(tmpBytes) = 1
        /\ manifest = procs[p].loaded
        /\ manifest # procs[p].m

SavedLater(p, q) == procs[p].m.last_updated > procs[q].m.last_updated

\* C17: when two processes loaded the same manifest, each marked a
\* different unparsed tag of the same repo and both runs ended without an
\* error, manifest.json holds the later saver's manifest: parsed_tags has the
\* loaded entries and the later saver's entry only, parsed_count is one more
\* than loaded, and the earlier saver's tag is lost.
C17_LostUpdate ==
    \A p, q \in Procs :
        ( /\ p # q
          /\ procs[p].pc = "done" /\ procs[p].err = ""
          /\ procs[q].pc = "done" /\ procs[q].err = ""
          /\ procs[p].repo = procs[q].repo
          /\ procs[p].tag # procs[q].tag
          /\ procs[p].loaded = procs[q].loaded
          /\ SavedLater(q, p) )
        => LET r == procs[p].repo
               before == procs[p].loaded.repos[r].parsed_tags
               after == manifest.repos[r]
           IN  /\ IsWhole(jsonBytes)
               /\ Len(after.parsed_tags) = Len(before) + 1
               /\ IsPrefix(before, after.parsed_tags)
               /\ after.parsed_tags[Len(before) + 1].tag = procs[q].tag
               /\ after.parsed_count = Len(before) + 1
               /\ procs[p].tag \notin ParsedTagSet(after)

\* both runs ended well on a repo with nothing parsed; one record is left
C17_Witness ==
    /\ \A p \in Procs : procs[p].pc = "done" /\ procs[p].err = ""
    /\ procs["p1"].repo = procs["p2"].repo
    /\ procs["p1"].tag # procs["p2"].tag
    /\ procs["p1"].loaded = procs["p2"].loaded
    /\ procs["p1"].loaded.repos[procs["p1"].repo].parsed_tags = <<>>
    /\ manifest.repos[procs["p1"].repo].parsed_count = 1
    /\ Len(manifest.repos[procs["p1"].repo].parsed_tags) = 1

\* C22: next-work only returns a repo that is in queue.txt, so a removed
\* repo is not returned while it stays out of the queue, whatever its
\* record holds; remove leaves manifest.json as it was.
C22_QueueGatesScheduling ==
    [][ /\ (Ran("next_work") /\ out'.repo # "")
              => (queueExists' /\ Contains(queue', out'.repo))
        /\ Ran("remove")
              => (manifest' = manifest /\ manifestExists' = manifestExists)
      ]_vars

\* next-work found no work although a record outside the queue has
\* unparsed tags
C22_Witness ==
    /\ out.op = "next_work"
    /\ out.err = "no_work"
    /\ \E r \in DOMAIN manifest.repos :
          /\ ~Contains(queue, r)
          /\ manifest.repos[r].parsed_count < manifest.repos[r].total_tags

\* every queued repo has a record, is discovered and has no tag left
NoQueuedWork ==
    \A i \in 1..Len(queue) :
        /\ queue[i] \in DOMAIN manifest.repos
        /\ ~manifest.repos[queue[i]].discovered_tags.none
        /\ manifest.repos[queue[i]].parsed_count
              >= manifest.repos[queue[i]].total_tags

\* C23: when manifest.json or queue.txt is missing, or no queued repo has
\* work, next-work prints an empty repo, an empty tag and
\* needs_discovery=false, exits with status 0 and changes no file.
C23_BenignEmptyResult ==
    [][ (Ran("next_work") /\ (~manifestExists \/ ~queueExists \/ NoQueuedWork))
          => /\ out'.repo = ""
             /\ out'.tag = NoTag
             /\ out'.msg = "needs_discovery=false"
             /\ out'.exit = 0
             /\ fileVars' = fileVars
             /\ saves' = saves ]_vars

\* next-work ran without manifest.json, with a repo in the queue
C23_Witness ==
    /\ out.op = "next_work"
    /\ out.err = "FileNotFoundError"
    /\ ~manifestExists
    /\ queueExists
    /\ queue # <<>>

\* C24: a discovery on an existing manifest is not an error; when it finds
\* no semantic-version tag it stores the empty list (not None) and
\* total_tags 0, and while a record holds the empty list next-work does not
\* return its repo, neither for discovery nor for parsing.
C24_EmptyDiscoveryIsFinal ==
    [][ /\ (Ran("discover") /\ manifestExists) => out'.exit = 0
        /\ (Ran("discover") /\ out'.exit = 0 /\ out'.tags = <<>>)
              => /\ manifest'.repos[out'.repo].discovered_tags = SomeTags(<<>>)
                 /\ manifest'.repos[out'.repo].total_tags = 0
        /\ Ran("next_work")
              => \A r \in DOMAIN manifest.repos :
                    manifest.repos[r].discovered_tags = SomeTags(<<>>)
                      => out'.repo # r ]_vars

\* next-work found no work for a queue whose repos were discovered empty
C24_Witness ==
    /\ out.op = "next_work"
    /\ out.err = "no_work"
    /\ queue # <<>>
    /\ \A i \in 1..Len(queue) :
          /\ queue[i] \in DOMAIN manifest.repos
          /\ manifest.repos[queue[i]].discovered_tags = SomeTags(<<>>)

\* a queued repo that is unregistered, undiscovered or has a discovered tag
\* that is not yet parsed
HasPendingWork(b) ==
    /\ Contains(queue, b)
    /\ \/ b \notin DOMAIN manifest.repos
       \/ manifest.repos[b].discovered_tags.none
       \/ ~(DiscoveredSet(manifest.repos[b])
               \subseteq ParsedTagSet(manifest.repos[b]))

\* C21: when the driver performs and records every action, next-work does
\* not hand out a Parse action for the repo of the Parse action just
\* performed while another queued repo has pending work, also when the repos
\* carry the same last_parsed date.
C21_NoConsecutiveParse ==
    [][ ( /\ pc = "ask" /\ pc' = "act"
          /\ trace # <<>>
          /\ ~Pending.needs_discovery
          /\ out'.repo = Pending.repo
          /\ out'.tag # NoTag )
        => \A b \in Repos \ {out'.repo} : ~HasPendingWork(b) ]_vars

NoWorkReturned == pc = "ask" /\ out.op = "next_work" /\ out.repo = ""

\* every queued repo is discovered and each of its discovered tags is parsed
AllParsed ==
    \A i \in 1..Len(queue) :
        /\ queue[i] \in DOMAIN manifest.repos
        /\ ~manifest.repos[queue[i]].discovered_tags.none
        /\ DiscoveredSet(manifest.repos[queue[i]])
              \subseteq ParsedTagSet(manifest.repos[queue[i]])

\* C25: for a fixed queue, when the driver performs and records every
\* action it is handed, next-work eventually returns no work, and whenever
\* it does, every queued repo is discovered and all its discovered tags are
\* in parsed_tags.
C25_DriverTerminates ==
    /\ <>NoWorkReturned
    /\ [](NoWorkReturned => AllParsed)

\* no work is left for a queue of two repos, five tags parsed in all
C25_Witness ==
    /\ NoWorkReturned
    /\ Len(queue) = 2
    /\ AllParsed
    /\ manifest.stats.total_tags_parsed = 5

\* C26: whenever a queued, discovered repo has a tag in discovered_tags
\* that is not in its parsed_tags, find_next_repo has that repo among its
\* candidates (so next-work does not report no work).
C26_NoTagOverlooked ==
    (manifestExists /\ queueExists) =>
      \A r \in DOMAIN manifest.repos :
          ( /\ Contains(queue, r)
            /\ ~manifest.repos[r].discovered_tags.none
            /\ ~(DiscoveredSet(manifest.repos[r])
                    \subseteq ParsedTagSet(manifest.repos[r])) )
          => Eligible(r)

CountersInRange(m) ==
    /\ \A r \in DOMAIN m.repos :
          ~m.repos[r].discovered_tags.none
            => m.repos[r].parsed_count <= m.repos[r].total_tags
    /\ m.stats.total_tags_pending >= 0

\* C28 as stated: in every manifest reachable by queue add, discover and
\* mark-parsed runs, every discovered repo has parsed_count <= total_tags
\* and stats.total_tags_pending is not negative.
C28_CountersInRange == CountersInRange(manifest)

\* C28, amended: the counters stay in range over every script run that is
\* neither a mark-parsed with a tag outside the repo's discovered_tags nor a
\* re-discovery whose selection lacks a tag the repo has already parsed,
\* when before it the counters are in range and every parsed tag is a
\* discovered one (written as a disjunction: the counters are in range
\* after the step, or one of these premises fails).
C28_InBandKeepsCountersInRange ==
    [][ \/ CountersInRange(manifest')
        \/ ~CountersInRange(manifest)
        \/ \E r \in DOMAIN manifest.repos :
                ~ParsedWereDiscovered(manifest.repos[r])
        \/ \E r \in DOMAIN manifest'.repos : ~InBand(r) ]_vars

\* the first of two discovered tags was marked; one tag is pending
C28_Witness ==
    /\ out.op = "mark_parsed"
    /\ out.err = ""
    /\ out.tag \in DiscoveredSet(manifest.repos[out.repo])
    /\ manifest.repos[out.repo].parsed_count = 1
    /\ manifest.repos[out.repo].total_tags = 2
    /\ manifest.stats.total_tags_pending = 1

\* C27: with two processes saving through the one manifest.tmp, in every
\* interleaving of their open, write and rename steps manifest.json is a
\* whole serialisation of one writer's manifest, and no save ends with an
\* error.
C27_ConcurrentSavesAreAtomic ==
    /\ IsWhole(jsonBytes)
    /\ \A p \in Procs :
          ~(procs[p].pc = "failed" /\ procs[p].err = "FileNotFoundError")

====
